---- MODULE Spec2Model ----
\* A state-machine model of the snake simulation engine (game_engine.rs):
\* the board, the per-snake move, the tick (Game::step) and Game::run_to_end.
EXTENDS Integers, Sequences, FiniteSets, TLC

\* ---------------------------------------------------------------- bounds
\* The board of the model (the program's is 32 x 16).
BOARD_WIDTH == 3
BOARD_HEIGHT == 3
\* Number of obstacle blocks scattered by Game::new (the program's is 5).
NB_OBSTACLES == 1
\* Largest snake id a caller passes to add_snake.
MaxSnakeId == 1
\* Largest number of Food cells the random food regeneration lets coexist.
MaxFood == 1
\* Largest number of ticks played while no snake is alive.
MaxIdleTicks == 2
\* Largest snake id a caller passes to add_snake in the games of OpenSpec.
MaxOpenSnakeId == 2
\* Largest number of ticks of a game of OpenSpec.
MaxOpenTicks == 6
\* Largest number of ticks of a game of LoopSpec.
MaxLoopTicks == 4
\* Number of obstacle blocks scattered by Game::new in the games of BuildSpec.
NbBuildObstacles == 2
\* Largest number of ticks of a game of BuildSpec.
MaxBuildTicks == 1
\* Largest number of ticks of a game of SightSpec.
MaxSightTicks == 2
\* Largest number of generations of a learning of LearnSpec.
MaxGenerations == 3
\* Largest number of Ctrl+C signals the user sends in LearnSpec.
MaxSignals == 2
\* The sight distance of the search of compute_stats_from (the program's is
\* 30, below its board diagonal of 36).
MAX_DEPTH == 2

\* ------------------------------------------------------ program constants
GROWTH_RATE == 3
MAX_SIZE_OBSTACLE == 2

NB_CELLS == BOARD_WIDTH * BOARD_HEIGHT
Positions == 0 .. (NB_CELLS - 1)
SnakeIds == 0 .. MaxSnakeId
NoId == 0 - 1

Actions == {"Left", "Front", "Right"}
Orientations == {"North", "East", "South", "West"}

\* ------------------------------------------------------------------ cells
Empty == [kind |-> "Empty", id |-> NoId]
Food == [kind |-> "Food", id |-> NoId]
Obstacle == [kind |-> "Obstacle", id |-> NoId]
Wall == [kind |-> "Wall", id |-> NoId]
SnakeHead(i) == [kind |-> "SnakeHead", id |-> i]
SnakeBody(i) == [kind |-> "SnakeBody", id |-> i]
SnakeTail(i) == [kind |-> "SnakeTail", id |-> i]

\* Option<T> is a sequence of length 0 (None) or 1 (Some).
None == <<>>
Some(v) == <<v>>

\* Rust's integer division and remainder truncate towards zero.
DivT(a, b) == IF a >= 0 THEN a \div b ELSE 0 - ((0 - a) \div b)
RemT(a, b) == a - b * DivT(a, b)

\* ------------------------------------------------------------ coordinates
to_pos(c) == c.x + c.y * BOARD_WIDTH

\* Variant of from_pos: quotient and remainder are exchanged.
from_pos_Swapped(p) == [x |-> DivT(p, BOARD_WIDTH), y |-> RemT(p, BOARD_WIDTH)]

from_pos(p) == [x |-> RemT(p, BOARD_WIDTH), y |-> DivT(p, BOARD_WIDTH)]

is_out_of_bounds(c) ==
    c.x < 0 \/ c.x >= BOARD_WIDTH \/ c.y < 0 \/ c.y >= BOARD_HEIGHT

\* Variant of next_orientation: Left turns the way Right does.
next_orientation_LeftIsRight(o, a) ==
    IF a = "Front" THEN o
    ELSE CASE o = "North" -> "East"
           [] o = "East" -> "South"
           [] o = "South" -> "West"
           [] o = "West" -> "North"

next_orientation(o, a) ==
    CASE o = "North" -> (CASE a = "Left" -> "West"
                           [] a = "Front" -> "North"
                           [] a = "Right" -> "East")
      [] o = "East" -> (CASE a = "Left" -> "North"
                          [] a = "Front" -> "East"
                          [] a = "Right" -> "South")
      [] o = "South" -> (CASE a = "Left" -> "East"
                           [] a = "Front" -> "South"
                           [] a = "Right" -> "West")
      [] o = "West" -> (CASE a = "Left" -> "South"
                          [] a = "Front" -> "West"
                          [] a = "Right" -> "North")

\* Variant of next_coord_towards: a move East from the last column goes on
\* to the first cell of the next row.
next_coord_towards_Wraps(from, o) ==
    IF \/ (o = "West" /\ from.x = 0)
       \/ (o = "East" /\ from.x = BOARD_WIDTH - 1 /\ from.y = BOARD_HEIGHT - 1)
       \/ (o = "North" /\ from.y = 0)
       \/ (o = "South" /\ from.y = BOARD_HEIGHT - 1)
    THEN None
    ELSE Some(CASE o = "North" -> [x |-> from.x, y |-> from.y - 1]
                [] o = "East" -> IF from.x = BOARD_WIDTH - 1
                                 THEN [x |-> 0, y |-> from.y + 1]
                                 ELSE [x |-> from.x + 1, y |-> from.y]
                [] o = "South" -> [x |-> from.x, y |-> from.y + 1]
                [] o = "West" -> [x |-> from.x - 1, y |-> from.y])

\* None when the move leads outside of the board.
next_coord_towards(from, o) ==
    IF \/ (o = "West" /\ from.x = 0)
       \/ (o = "East" /\ from.x = BOARD_WIDTH - 1)
       \/ (o = "North" /\ from.y = 0)
       \/ (o = "South" /\ from.y = BOARD_HEIGHT - 1)
    THEN None
    ELSE Some(CASE o = "North" -> [x |-> from.x, y |-> from.y - 1]
                [] o = "East" -> [x |-> from.x + 1, y |-> from.y]
                [] o = "South" -> [x |-> from.x, y |-> from.y + 1]
                [] o = "West" -> [x |-> from.x - 1, y |-> from.y])

\* ------------------------------------------------------------------ board
\* A board value is the cells array; a panic of the program is carried as a
\* message ("" when none) next to the value an operation returns.
get_tile_at_pos(b, p) == b[p]

get_tile_at_coord(b, c) ==
    IF is_out_of_bounds(c) THEN Wall ELSE get_tile_at_pos(b, to_pos(c))

set_tile_in_bounds(p) == p >= 0 /\ p < BOARD_WIDTH * BOARD_HEIGHT

\* Variant of set_tile_at_pos: the cell is not written.
set_tile_at_pos_Noop(b, p, cell) == b

set_tile_at_pos(b, p, cell) ==
    IF set_tile_in_bounds(p) THEN [b EXCEPT ![p] = cell] ELSE b

\* Whether the call set_tile_at_pos(p, _) panics.
set_tile_at_pos_panics(p) == ~set_tile_in_bounds(p)

set_tile_at_coord(b, c, cell) == set_tile_at_pos(b, to_pos(c), cell)

\* Whether the call set_tile_at_coord(c, _) panics.
set_tile_at_coord_panics(c) == set_tile_at_pos_panics(to_pos(c))

\* Variant of is_pos_free_or_food: every cell counts as free.
is_pos_free_or_food_Any(b, p) == TRUE

is_pos_free_or_food(b, p) == get_tile_at_pos(b, p).kind \in {"Empty", "Food"}

is_coord_free_or_food(b, c) == get_tile_at_coord(b, c).kind \in {"Empty", "Food"}

\* Variant of is_suicide_moves: only a move off the board is suicidal.
is_suicide_moves_EdgeOnly(b, from, o, a) ==
    next_coord_towards(from, next_orientation(o, a)) = None

is_suicide_moves(b, from, o, a) ==
    LET nc == next_coord_towards(from, next_orientation(o, a))
    IN  IF nc = None THEN TRUE ELSE ~is_coord_free_or_food(b, nc[1])

\* The non-suicidal actions in the order Left, Front, Right.
get_non_suicide_moves(b, from, o) ==
    SelectSeq(<<"Left", "Front", "Right">>,
              LAMBDA a : ~is_suicide_moves(b, from, o, a))

\* SnakeState::get_head_pos and get_head_coord, of a snake with a body.
get_head_pos(s) == Head(s.positions)

get_head_coord(s) == from_pos(get_head_pos(s))

\* Variant of get_non_suicide_random_action: the index picks among all three
\* actions.
get_non_suicide_random_action_AnyAction(b, myself, action_idx) ==
    <<"Left", "Front", "Right">>[action_idx + 1]

\* get_non_suicide_random_action (random_bot.rs) with the index drawn by
\* rng.gen_range(0, possible_actions.len()) made explicit.
get_non_suicide_random_action(b, myself, action_idx) ==
    LET possible_actions ==
            get_non_suicide_moves(b, get_head_coord(myself), myself.current_orientation)
    IN  IF possible_actions = <<>>
        THEN "Front"
        ELSE possible_actions[action_idx + 1]

\* Variant of CountFree: the Food cells are not counted.
CountFree_EmptyOnly(b) == Cardinality({p \in Positions : b[p].kind = "Empty"})

CountFree(b) == Cardinality({p \in Positions : b[p].kind \in {"Empty", "Food"}})

\* ------------------------------------------------------------------ snake
\* Variant of NewSnake: the growth counter starts at zero.
NewSnake_NoGrowth(id) ==
    [id |-> id, positions |-> <<>>, current_orientation |-> "North",
     alive |-> TRUE, just_died |-> FALSE, growth_state |-> 0]

NewSnake(id) ==
    [id |-> id, positions |-> <<>>, current_orientation |-> "North",
     alive |-> TRUE, just_died |-> FALSE, growth_state |-> GROWTH_RATE]

\* Snake::get_next_action: None for a dead snake, else what the bot answers.
get_next_action(s, bot) == IF ~s.alive THEN None ELSE Some(bot[s.id])

\* Variant of ShrinksTail: a growth tick does not keep the tail.
ShrinksTail_IgnoresGrowth(food, growing) == ~food

\* The tail is popped unless the snake eats or grows.
ShrinksTail(food, growing) == ~(food \/ growing)

\* Whether the move into an in-bounds destination kills the snake.
DiesAt(b, c) == ~is_coord_free_or_food(b, c)

\* Snake::execute_action on board b: the new board, the new snake and the
\* panic message ("" when the call returns).
execute_action(b, s, a) ==
    IF ~s.alive THEN [cells |-> b, snake |-> s, panic |-> ""]
    ELSE IF s.positions = <<>>
    THEN [cells |-> b, snake |-> s, panic |-> "The game hasn't been initialized."]
    ELSE
    LET next_o == next_orientation(s.current_orientation, a)
        current_head_pos == Head(s.positions)
        next_head_coord == next_coord_towards(from_pos(current_head_pos), next_o)
    IN  IF next_head_coord = None
        THEN [cells |-> set_tile_at_pos(b, current_head_pos, SnakeBody(s.id)),
              snake |-> [s EXCEPT !.just_died = TRUE],
              panic |-> ""]
        ELSE IF s.growth_state <= 0
        THEN [cells |-> b,
              snake |-> [s EXCEPT !.just_died = s.just_died \/ DiesAt(b, next_head_coord[1])],
              panic |-> "assertion failed: self.growth_state > 0"]
        ELSE
        LET c == next_head_coord[1]
            died == s.just_died \/ DiesAt(b, c)
            next_head_pos == to_pos(c)
            food == get_tile_at_pos(b, next_head_pos) = Food
            growing == s.growth_state - 1 = 0
            growth == IF growing THEN GROWTH_RATE ELSE s.growth_state - 1
            pushed == <<next_head_pos>> \o s.positions
            b1 == set_tile_at_pos(b, current_head_pos, SnakeBody(s.id))
            shrink == ShrinksTail(food, growing)
            popped == IF shrink THEN SubSeq(pushed, 1, Len(pushed) - 1) ELSE pushed
            b2 == IF shrink
                  THEN set_tile_at_pos(b1, pushed[Len(pushed)], Empty)
                  ELSE b1
        IN  IF popped = <<>>
            THEN [cells |-> b2,
                  snake |-> [s EXCEPT !.just_died = died, !.growth_state = growth,
                                      !.positions = popped,
                                      !.current_orientation = next_o],
                  panic |-> "0-length Snake in execute_action()."]
            ELSE [cells |-> set_tile_at_pos(
                                set_tile_at_pos(b2, popped[Len(popped)], SnakeTail(s.id)),
                                next_head_pos, SnakeHead(s.id)),
                  snake |-> [s EXCEPT !.just_died = died, !.growth_state = growth,
                                      !.positions = popped,
                                      !.current_orientation = next_o],
                  panic |-> ""]

\* Variant of RemovedPositions: the head of the body is left on the board.
RemovedPositions_BodyOnly(s) == {s.positions[k] : k \in 2 .. Len(s.positions)}

\* Snake::remove_snake_from_board: every position of the body becomes Empty.
RemovedPositions(s) == {s.positions[k] : k \in 1 .. Len(s.positions)}

remove_snake_from_board(b, s) ==
    [p \in Positions |-> IF p \in RemovedPositions(s) THEN Empty ELSE b[p]]

\* ------------------------------------------------------ compute_stats_from
\* ((BOARD_WIDTH^2 + BOARD_HEIGHT^2) as f64).sqrt().ceil()
board_diag_size ==
    LET n == BOARD_WIDTH * BOARD_WIDTH + BOARD_HEIGHT * BOARD_HEIGHT
    IN  CHOOSE d \in 0 .. n : d * d >= n /\ \A e \in 0 .. n : e * e >= n => d <= e

\* The state of the search: the fringe queue of (pos, dist) pairs with the
\* index of its front, the added set and the five statistics.
StartSearch(coord, b) ==
    LET free == coord # None /\ is_coord_free_or_food(b, coord[1])
    IN  [queue |-> IF free THEN <<[pos |-> to_pos(coord[1]), dist |-> 0]>> ELSE <<>>,
         queue_front |-> 1,
         added |-> IF free THEN {to_pos(coord[1])} ELSE {},
         accessible_area |-> 0,
         num_accessible_food |-> 0,
         sum_dist_enemy_heads |-> 0,
         sum_dist_enemy_tails |-> 0,
         min_dist_to_food |-> board_diag_size]

\* The update of the statistics for the popped cell.
CountCell(st, b, pos, dist) ==
    LET tile == get_tile_at_pos(b, pos)
    IN  IF tile = Empty
        THEN [st EXCEPT !.accessible_area = @ + 1]
        ELSE IF tile = Food
        THEN [st EXCEPT !.accessible_area = @ + 1,
                        !.num_accessible_food = @ + 1,
                        !.min_dist_to_food = IF dist < @ THEN dist ELSE @]
        ELSE st

\* The neighbours of a cell in the order the search visits them.
Neighbours(c) ==
    <<[x |-> c.x - 1, y |-> c.y], [x |-> c.x + 1, y |-> c.y],
      [x |-> c.x, y |-> c.y - 1], [x |-> c.x, y |-> c.y + 1]>>

\* Variant of VisitNeighbour: a head or a tail is not recorded in added.
VisitNeighbour_Recounts(st, snake_id, b, coord, dist) ==
    LET pos == to_pos(coord)
    IN  IF is_out_of_bounds(coord) \/ pos \in st.added THEN st
        ELSE LET tile == get_tile_at_pos(b, pos)
             IN  IF tile.kind = "SnakeHead"
                 THEN IF tile.id # snake_id
                      THEN [st EXCEPT !.sum_dist_enemy_heads = @ + dist]
                      ELSE st
                 ELSE IF tile.kind = "SnakeTail"
                 THEN IF tile.id # snake_id
                      THEN [st EXCEPT !.sum_dist_enemy_tails = @ + dist]
                      ELSE st
                 ELSE IF tile = Empty \/ tile = Food
                 THEN [st EXCEPT !.added = @ \cup {pos},
                                 !.queue = Append(@, [pos |-> pos, dist |-> dist + 1])]
                 ELSE [st EXCEPT !.added = @ \cup {pos}]

\* The closure applied to one neighbour of a cell popped at distance dist.
VisitNeighbour(st, snake_id, b, coord, dist) ==
    LET pos == to_pos(coord)
    IN  IF is_out_of_bounds(coord) \/ pos \in st.added THEN st
        ELSE LET tile == get_tile_at_pos(b, pos)
                 seen == [st EXCEPT !.added = @ \cup {pos}]
             IN  IF tile.kind = "SnakeHead"
                 THEN IF tile.id # snake_id
                      THEN [seen EXCEPT !.sum_dist_enemy_heads = @ + dist]
                      ELSE seen
                 ELSE IF tile.kind = "SnakeTail"
                 THEN IF tile.id # snake_id
                      THEN [seen EXCEPT !.sum_dist_enemy_tails = @ + dist]
                      ELSE seen
                 ELSE IF tile = Empty \/ tile = Food
                 THEN [seen EXCEPT !.queue = Append(@, [pos |-> pos, dist |-> dist + 1])]
                 ELSE seen

RECURSIVE VisitNeighbours(_, _, _, _, _)
VisitNeighbours(st, snake_id, b, coords, dist) ==
    IF coords = <<>> THEN st
    ELSE VisitNeighbours(VisitNeighbour(st, snake_id, b, Head(coords), dist),
                         snake_id, b, Tail(coords), dist)

\* Variant of BeyondSight: the search has no sight distance.
BeyondSight_Never(dist) == FALSE

\* Whether the loop stops at a popped cell of distance dist.
BeyondSight(dist) == dist > MAX_DEPTH

\* The breadth-first loop.
RECURSIVE Search(_, _, _)
Search(st, snake_id, b) ==
    IF st.queue_front > Len(st.queue) THEN st
    ELSE LET e == st.queue[st.queue_front]
             popped == [st EXCEPT !.queue_front = @ + 1]
         IN  IF BeyondSight(e.dist) THEN popped
             ELSE Search(VisitNeighbours(CountCell(popped, b, e.pos, e.dist), snake_id, b,
                                         Neighbours(from_pos(e.pos)), e.dist),
                         snake_id, b)

\* Whether the enemy distance sum is replaced by the sentinel.
NoEnemySeen(sum) == sum = 0

\* compute_stats_from on the board b with its counters nb_alive and nb_free:
\* the five statistics, each as the pair of the value and of the divisor of
\* its normalization, and the final state of the search.
compute_stats_from(snake_id, coord, b, nb_alive, nb_free) ==
    LET st == Search(StartSearch(coord, b), snake_id, b)
        max_sum_dist_enemy == (nb_alive - 1) * board_diag_size
        heads == IF NoEnemySeen(st.sum_dist_enemy_heads)
                 THEN max_sum_dist_enemy ELSE st.sum_dist_enemy_heads
        tails == IF NoEnemySeen(st.sum_dist_enemy_tails)
                 THEN max_sum_dist_enemy ELSE st.sum_dist_enemy_tails
    IN  [accessible_area |-> [num |-> st.accessible_area, den |-> nb_free],
         num_accessible_food |-> [num |-> st.num_accessible_food, den |-> nb_free],
         sum_dist_enemy_heads |-> [num |-> heads, den |-> max_sum_dist_enemy],
         sum_dist_enemy_tails |-> [num |-> tails, den |-> max_sum_dist_enemy],
         min_dist_to_food |-> [num |-> st.min_dist_to_food, den |-> board_diag_size],
         search |-> st]

\* ------------------------------------------------------------------- tick
AliveCount(ss) == Cardinality({i \in 1 .. Len(ss) : ss[i].alive})

\* The indices of the snakes the loops of step() visit: the live ones, in
\* list order.
AliveFilter(ss, i) == ss[i].alive

AliveIdx(ss) ==
    SelectSeq([i \in 1 .. Len(ss) |-> i], LAMBDA i : AliveFilter(ss, i))

\* Variant of TakeActions: the loop visits every snake of the list.
TakeActions_Unfiltered(ss, bot) ==
    [k \in 1 .. Len(ss) |-> get_next_action(ss[k], bot)]

\* "Take the snakes' next actions": one Option<Action> per visited snake.
TakeActions(ss, bot) ==
    LET idx == AliveIdx(ss)
    IN  [k \in 1 .. Len(idx) |-> get_next_action(ss[idx[k]], bot)]

\* The calls of SnakeBot::get_next_action a tick makes, in order: the id of
\* each visited snake for which Snake::get_next_action reaches its bot.
BotCalls(ss, bot) ==
    LET idx == AliveIdx(ss)
        actions == TakeActions(ss, bot)
        n == IF Len(idx) <= Len(actions) THEN Len(idx) ELSE Len(actions)
    IN  SelectSeq([k \in 1 .. n |-> IF actions[k] = None THEN NoId ELSE ss[idx[k]].id],
                  LAMBDA c : c # NoId)

Min(a, b) == IF a <= b THEN a ELSE b

\* "Move the snakes": the visited snakes zipped with the actions, in order.
RECURSIVE MoveSnakes(_, _, _, _, _)
MoveSnakes(k, idx, actions, b, ss) ==
    IF k > Min(Len(idx), Len(actions))
    THEN [cells |-> b, snakes |-> ss, panic |-> ""]
    ELSE IF actions[k] = None
    THEN MoveSnakes(k + 1, idx, actions, b, ss)
    ELSE LET r == execute_action(b, ss[idx[k]], actions[k][1])
             ss1 == [ss EXCEPT ![idx[k]] = r.snake]
         IN  IF r.panic # ""
             THEN [cells |-> r.cells, snakes |-> ss1, panic |-> r.panic]
             ELSE MoveSnakes(k + 1, idx, actions, r.cells, ss1)

\* Variant of HeadCollides: the collision pass marks no snake.
HeadCollides_Never(b, s) == FALSE

\* Variant of HeadCollides: the id of the head on the cell is not compared.
HeadCollides_AnyHead(b, s) ==
    /\ s.alive
    /\ s.positions # <<>>
    /\ get_tile_at_pos(b, Head(s.positions)).kind = "SnakeHead"

\* "Check head collisions": a live snake whose head cell shows the head of
\* another snake has just died.
HeadCollides(b, s) ==
    /\ s.alive
    /\ s.positions # <<>>
    /\ get_tile_at_pos(b, Head(s.positions)).kind = "SnakeHead"
    /\ get_tile_at_pos(b, Head(s.positions)).id # s.id

CheckHeadCollisions(b, ss) ==
    [i \in 1 .. Len(ss) |->
        IF HeadCollides(b, ss[i]) THEN [ss[i] EXCEPT !.just_died = TRUE] ELSE ss[i]]

\* "Remove the dead snakes from the board", in list order.
RECURSIVE RemoveDeadCells(_, _, _)
RemoveDeadCells(i, b, ss) ==
    IF i > Len(ss) THEN b
    ELSE IF ss[i].just_died
    THEN RemoveDeadCells(i + 1, remove_snake_from_board(b, ss[i]), ss)
    ELSE RemoveDeadCells(i + 1, b, ss)

\* Variant of RemoveDeadSnakes: just_died is not reset.
RemoveDeadSnakes_KeepJustDied(ss) ==
    [i \in 1 .. Len(ss) |->
        IF ss[i].just_died THEN [ss[i] EXCEPT !.alive = FALSE] ELSE ss[i]]

RemoveDeadSnakes(ss) ==
    [i \in 1 .. Len(ss) |->
        IF ss[i].just_died
        THEN [ss[i] EXCEPT !.just_died = FALSE, !.alive = FALSE]
        ELSE ss[i]]

\* GameResults
Winner(i) == [kind |-> "Winner", id |-> i]
Draw == [kind |-> "Draw", id |-> NoId]
GameResults(w, n) == [winner |-> w, steps |-> n]

\* Variant of FirstAliveId: the first snake of the list, alive or not.
FirstAliveId_First(ss) == ss[1].id

FirstAliveId(ss) == ss[AliveIdx(ss)[1]].id

\* Variant of ResultsOpen: results are written whenever a condition matches.
ResultsOpen_Always(res) == TRUE

\* Whether step() may write self.results.
ResultsOpen(res) == res = None

\* Variant of VerifyResults: steps is self.step, not self.step + 1.
VerifyResults_StepNotCounted(res, prev_nb_alive, nb_alive, ss, stp) ==
    IF ~ResultsOpen(res) THEN res
    ELSE LET r1 == IF prev_nb_alive > 0 /\ nb_alive = 0
                   THEN Some(GameResults(IF Len(ss) > 1 THEN Some(Draw) ELSE None, stp))
                   ELSE res
         IN  IF prev_nb_alive > 0 /\ nb_alive = 1 /\ Len(ss) > 1
             THEN Some(GameResults(Some(Winner(FirstAliveId(ss))), stp))
             ELSE r1

\* Variant of VerifyResults: results are never written.
VerifyResults_Never(res, prev_nb_alive, nb_alive, ss, stp) == res

\* Variant of VerifyResults: the alive count before the tick is not read.
VerifyResults_IgnoresPrev(res, prev_nb_alive, nb_alive, ss, stp) ==
    IF ~ResultsOpen(res) THEN res
    ELSE LET r1 == IF nb_alive = 0
                   THEN Some(GameResults(IF Len(ss) > 1 THEN Some(Draw) ELSE None,
                                         stp + 1))
                   ELSE res
         IN  IF nb_alive = 1 /\ Len(ss) > 1
             THEN Some(GameResults(Some(Winner(FirstAliveId(ss))), stp + 1))
             ELSE r1

\* "Verify if win/loose/draw": the value of self.results after the tick.
VerifyResults(res, prev_nb_alive, nb_alive, ss, stp) ==
    IF ~ResultsOpen(res) THEN res
    ELSE LET r1 == IF prev_nb_alive > 0 /\ nb_alive = 0
                   THEN Some(GameResults(IF Len(ss) > 1 THEN Some(Draw) ELSE None,
                                         stp + 1))
                   ELSE res
         IN  IF prev_nb_alive > 0 /\ nb_alive = 1 /\ Len(ss) > 1
             THEN Some(GameResults(Some(Winner(FirstAliveId(ss))), stp + 1))
             ELSE r1

\* Variant of update_food: the drawn cell becomes Food whatever it holds.
update_food_Unchecked(b, draw) ==
    IF draw = None THEN b ELSE set_tile_at_pos(b, draw[1], Food)

\* GameBoard::update_food with the random draw made explicit: None when
\* p >= food_add_probability, Some(pos) for the cell drawn otherwise.
update_food(b, draw) ==
    IF draw = None THEN b
    ELSE IF is_pos_free_or_food(b, draw[1])
    THEN set_tile_at_pos(b, draw[1], Food)
    ELSE b

\* The moves, the collision pass and the removal of one tick, as a function
\* of the board, the snake list and the answers of the bots.
Tick(b, ss, bot) ==
    LET idx == AliveIdx(ss)
        actions == TakeActions(ss, bot)
        m == MoveSnakes(1, idx, actions, b, ss)
        checked == CheckHeadCollisions(m.cells, m.snakes)
    IN  IF m.panic # ""
        THEN [cells |-> m.cells, snakes |-> m.snakes, panic |-> m.panic,
              asked |-> {ss[idx[k]].id : k \in {j \in 1 .. Len(idx) : actions[j] # None}}]
        ELSE [cells |-> RemoveDeadCells(1, m.cells, checked),
              snakes |-> RemoveDeadSnakes(checked),
              panic |-> "",
              asked |-> {ss[idx[k]].id : k \in {j \in 1 .. Len(idx) : actions[j] # None}}]

\* ------------------------------------------------------------------ state
VARIABLES
    cells,            \* GameBoard.cells
    nb_free_cells,    \* GameBoard.nb_free_cells
    nb_alive_snakes,  \* GameBoard.nb_alive_snakes
    snakes,           \* Game.snakes
    initialized,      \* Game.initialized
    step,             \* Game.step
    results,          \* Game.results
    lazy_simulation,  \* Game.lazy_simulation
    panic,            \* the message of the panic that ended the program, or ""
    rte,              \* run_to_end: "idle", "running" or "returned"
    rte_calls,        \* calls of step() made by run_to_end
    rte_result,       \* what run_to_end returned
    last_bot,         \* the last tick's answers of the bots, by snake id
    idle_ticks,       \* ticks played with no snake alive
    first_drop,       \* the first tick in which the alive count fell to <= 1
    handler_enabled,    \* learning.rs: the AtomicBool handler_enabled
    ctrlc_interrupted,  \* the AtomicBool ctrlc_interrupted
    learning_stopped,   \* the AtomicBool learning_stopped
    best_weights,       \* the local best_weights of learn_weights
    lw_pc,              \* the position of the thread running learn_weights
    lw_result,          \* the last result of snake_simulation.step()
    generation,         \* generations completed by the simulation
    lw_return,          \* what learn_weights returned
    handler_pc,         \* the position of the Ctrl+C handler thread
    signals,            \* Ctrl+C signals received
    stopped_at          \* generations completed when "stop the learning" was chosen

learn_vars == <<handler_enabled, ctrlc_interrupted, learning_stopped, best_weights,
                lw_pc, lw_result, generation, lw_return, handler_pc, signals,
                stopped_at>>

vars == <<cells, nb_free_cells, nb_alive_snakes, snakes, initialized, step,
          results, lazy_simulation, panic, rte, rte_calls,
          rte_result, last_bot, idle_ticks, first_drop, learn_vars>>

game_vars == <<cells, nb_free_cells, nb_alive_snakes, snakes, initialized, step,
               results, lazy_simulation, last_bot, idle_ticks, first_drop>>

rte_vars == <<rte, rte_calls, rte_result>>

\* learn_weights has not been called: no handler is installed.
LearningIdle ==
    /\ handler_enabled = FALSE
    /\ ctrlc_interrupted = FALSE
    /\ learning_stopped = FALSE
    /\ best_weights = None
    /\ lw_pc = "idle"
    /\ lw_result = None
    /\ generation = 0
    /\ lw_return = None
    /\ handler_pc = "idle"
    /\ signals = 0
    /\ stopped_at = None

\* ----------------------------------------------------------- construction
\* One random obstacle block: side w, top-left corner (x, y).
ObstacleDraws ==
    {d \in [w : 1 .. MAX_SIZE_OBSTACLE, x : 0 .. BOARD_WIDTH, y : 0 .. BOARD_HEIGHT] :
        d.x < BOARD_WIDTH - d.w /\ d.y < BOARD_HEIGHT - d.w}

\* The draws the model explores: the blocks of the largest side.
ExploredDraws == {d \in ObstacleDraws : d.w = MAX_SIZE_OBSTACLE}

\* The draws OpenSpec explores: the block of one cell in the corner (0, 0).
OpenDraws == {d \in ObstacleDraws : d.w = 1 /\ d.x = 0 /\ d.y = 0}

BlockCells(d) ==
    {to_pos([x |-> d.x + i, y |-> d.y + j]) : i \in 0 .. (d.w - 1), j \in 0 .. (d.w - 1)}

\* GameBoard::add_random_obstacles over the sequence of draws.
RECURSIVE add_random_obstacles(_, _, _)
add_random_obstacles(b, free, draws) ==
    IF draws = <<>> THEN [cells |-> b, nb_free_cells |-> free]
    ELSE add_random_obstacles(
            [p \in Positions |-> IF p \in BlockCells(Head(draws)) THEN Obstacle ELSE b[p]],
            free - Head(draws).w * Head(draws).w,
            Tail(draws))

\* Game::new() scattering n obstacle blocks, the draws taken from the set
\* explored.
NewGameWith(n, explored) ==
    \E draws \in [1 .. n -> explored] :
        LET board == add_random_obstacles([p \in Positions |-> Empty],
                                          BOARD_WIDTH * BOARD_HEIGHT, draws)
        IN  /\ cells = board.cells
            /\ nb_free_cells = board.nb_free_cells
            /\ nb_alive_snakes = 0
            /\ snakes = <<>>
            /\ initialized = FALSE
            /\ step = 0
            /\ results = None
            /\ lazy_simulation = TRUE
            /\ panic = ""
            /\ rte = "idle"
            /\ rte_calls = 0
            /\ rte_result = None
            /\ last_bot = <<>>
            /\ idle_ticks = 0
            /\ first_drop = None
            /\ LearningIdle

\* Game::new(), the obstacle draws taken from the set explored.
NewGame(explored) == NewGameWith(NB_OBSTACLES, explored)

Init == NewGame(ExploredDraws)

\* The program is running and the caller is not inside run_to_end.
CallerFree == panic = "" /\ rte # "running"

\* The callers build a game, call run_to_end on it and may go on calling
\* step() once it has returned.
BuilderPhase == CallerFree /\ rte = "idle" /\ step = 0

Panics(msg) == panic' = msg /\ UNCHANGED <<game_vars, rte_vars>>

IdsOf(ss) == {ss[i].id : i \in 1 .. Len(ss)}

IdInUse(id) == \E i \in 1 .. Len(snakes) : snakes[i].id = id

\* Variant of AddSnake: the id is not compared with the ids in use.
AddSnake_NoCheck(id) ==
    /\ UNCHANGED learn_vars
    /\ CallerFree
    /\ step = 0
    /\ Len(snakes) <= MaxSnakeId
    /\ snakes' = Append(snakes, NewSnake(id))
    /\ UNCHANGED <<cells, nb_free_cells, nb_alive_snakes, initialized, step,
                   results, lazy_simulation, panic, rte_vars, last_bot,
                   idle_ticks, first_drop>>

\* Game::add_snake, called before the first tick. A new id is larger than the
\* ids in use: the engine compares ids only for equality, so any other order
\* of the same ids is a renaming of one of these.
AddSnake(id) ==
    /\ UNCHANGED learn_vars
    /\ CallerFree
    /\ IdInUse(id) \/ \A j \in IdsOf(snakes) : j < id
    /\ step = 0
    /\ IF IdInUse(id)
       THEN Panics("The ID is already used!")
       ELSE /\ snakes' = Append(snakes, NewSnake(id))
            /\ UNCHANGED <<cells, nb_free_cells, nb_alive_snakes, initialized, step,
                           results, lazy_simulation, panic, rte_vars, last_bot,
                           idle_ticks, first_drop>>

\* Game::continue_simulation_if_known_winner, called before the first tick.
ContinueSimulationIfKnownWinner(c) ==
    /\ UNCHANGED learn_vars
    /\ BuilderPhase
    /\ lazy_simulation' = ~c
    /\ UNCHANGED <<cells, nb_free_cells, nb_alive_snakes, snakes, initialized, step,
                   results, panic, rte_vars, last_bot, idle_ticks, first_drop>>

\* Game::initialize over the cells the random placement ends on, one per
\* snake in list order; a snake for which no cell is free exhausts the
\* attempts.
RECURSIVE PlaceSnakes(_, _, _, _)
PlaceSnakes(i, b, ss, choice) ==
    IF i > Len(ss) THEN [cells |-> b, snakes |-> ss, panic |-> ""]
    ELSE IF ~is_pos_free_or_food(b, choice[i])
    THEN [cells |-> b, snakes |-> ss,
          panic |-> "Not able to find an initial position for the snake."]
    ELSE PlaceSnakes(i + 1,
                     set_tile_at_pos(b, choice[i], SnakeHead(ss[i].id)),
                     [ss EXCEPT ![i] = [@ EXCEPT !.positions = <<choice[i]>> \o @,
                                                 !.current_orientation = "North"]],
                     choice)

\* The placements the random search can end on: a free cell for each snake,
\* any cell once none is free.
RECURSIVE ValidChoice(_, _, _)
ValidChoice(i, b, choice) ==
    IF i > Len(choice) THEN TRUE
    ELSE IF CountFree(b) = 0 THEN choice[i] = 0
    ELSE /\ is_pos_free_or_food(b, choice[i])
         /\ ValidChoice(i + 1, set_tile_at_pos(b, choice[i], SnakeHead(NoId)), choice)

\* Game::initialize, called once, as the builder chain of every caller does.
Initialize ==
    /\ UNCHANGED learn_vars
    /\ BuilderPhase
    /\ ~initialized
    /\ \E choice \in [1 .. Len(snakes) -> Positions] :
        /\ ValidChoice(1, cells, choice)
        /\ LET r == PlaceSnakes(1, cells, snakes, choice)
           IN  IF r.panic # ""
               THEN Panics(r.panic)
               ELSE /\ cells' = r.cells
                    /\ snakes' = r.snakes
                    /\ initialized' = TRUE
                    /\ UNCHANGED <<nb_free_cells, nb_alive_snakes, step, results,
                                   lazy_simulation, panic, rte_vars, last_bot,
                                   idle_ticks, first_drop>>

\* ------------------------------------------------------------------- step
AliveIds(ss) == {ss[i].id : i \in {j \in 1 .. Len(ss) : ss[j].alive}}

FoodCount(b) == Cardinality({p \in Positions : b[p] = Food})

\* The answers the bots would give in a tick, by snake id; the answer of a
\* snake that is not alive is immaterial and fixed to Front.
BotAnswers(ss) ==
    {bot \in [IdsOf(ss) -> Actions] :
        \A id \in IdsOf(ss) \ AliveIds(ss) : bot[id] = "Front"}

\* The outcomes of the food draw of a tick, on the board b it is made on.
FoodDraws(b) ==
    {None} \cup (IF FoodCount(b) < MaxFood THEN {Some(p) : p \in Positions} ELSE {})

\* Game::step with the answers of the bots and the food draw made explicit;
\* fires tells whether the draw p of update_food may fall below
\* food_add_probability in this tick.
StepWith(bot, fires) ==
    IF ~initialized
    THEN panic' = "assertion failed: self.initialized" /\ UNCHANGED game_vars
    ELSE \E t \in {Tick(cells, snakes, bot)} :
         \E prev_nb_alive \in {AliveCount(snakes)} :
         \E nb_alive \in {AliveCount(t.snakes)} :
         IF t.panic # ""
         THEN panic' = t.panic /\ UNCHANGED game_vars
         ELSE /\ snakes' = t.snakes
              /\ nb_alive_snakes' = prev_nb_alive
              /\ results' = VerifyResults(results, prev_nb_alive, nb_alive, t.snakes, step)
              /\ nb_free_cells' = CountFree(t.cells)
              /\ \E draw \in (IF fires THEN FoodDraws(t.cells) ELSE {None}) :
                    cells' = update_food(t.cells, draw)
              /\ step' = step + 1
              /\ last_bot' = [id \in t.asked |-> bot[id]]
              /\ idle_ticks' = IF prev_nb_alive = 0 THEN idle_ticks + 1 ELSE idle_ticks
              /\ first_drop' =
                     IF first_drop = None /\ nb_alive < prev_nb_alive /\ nb_alive <= 1
                     THEN Some([tick |-> step + 1, alive |-> AliveIds(t.snakes)])
                     ELSE first_drop
              /\ UNCHANGED <<initialized, lazy_simulation, panic>>

StepBody(bot) == StepWith(bot, TRUE)

\* The ticks the model plays: every tick that starts with a live snake, and
\* MaxIdleTicks ticks that start with none.
TickAllowed == AliveCount(snakes) > 0 \/ idle_ticks < MaxIdleTicks

\* A call of Game::step by the caller, after run_to_end.
Step ==
    /\ UNCHANGED learn_vars
    /\ CallerFree
    /\ rte = "returned"
    /\ TickAllowed
    /\ \E bot \in BotAnswers(snakes) : StepBody(bot)
    /\ UNCHANGED rte_vars

\* ------------------------------------------------------------- run_to_end
\* Variant of RunToEndCondition: lazy_simulation is not read.
RunToEndCondition_NotLazy == results = None \/ AliveCount(snakes) > 0

\* Variant of RunToEndCondition: the loop stops as soon as results exist.
RunToEndCondition_AlwaysLazy == results = None

\* The loop condition of Game::run_to_end.
RunToEndCondition ==
    results = None \/ (~lazy_simulation /\ AliveCount(snakes) > 0)

RunToEndCall ==
    /\ UNCHANGED learn_vars
    /\ panic = ""
    /\ rte = "idle"
    /\ rte' = "running"
    /\ rte_calls' = 0
    /\ rte_result' = None
    /\ UNCHANGED <<game_vars, panic>>

\* One iteration of the loop: a call of step().
RunToEndStep ==
    /\ UNCHANGED learn_vars
    /\ panic = ""
    /\ rte = "running"
    /\ RunToEndCondition
    /\ TickAllowed
    /\ \E bot \in BotAnswers(snakes) : StepBody(bot)
    /\ rte_calls' = rte_calls + 1
    /\ UNCHANGED <<rte, rte_result>>

\* The loop ends and run_to_end returns a clone of the results.
RunToEndReturn ==
    /\ UNCHANGED learn_vars
    /\ panic = ""
    /\ rte = "running"
    /\ ~RunToEndCondition
    /\ IF results = None
       THEN Panics("Logic error, no result in run_to_end().")
       ELSE /\ rte' = "returned"
            /\ rte_result' = results
            /\ UNCHANGED <<game_vars, panic, rte_calls>>

Next ==
    \/ \E id \in SnakeIds : AddSnake(id)
    \/ \E c \in BOOLEAN : ContinueSimulationIfKnownWinner(c)
    \/ Initialize
    \/ Step
    \/ RunToEndCall
    \/ RunToEndStep
    \/ RunToEndReturn

Spec == Init /\ [][Next]_vars

\* run_to_end is sequential code: while its loop condition holds the loop
\* makes its next call of step(), and when it fails run_to_end returns.
\* RunToEndIteration is a step of the behaviour that is an iteration of the
\* loop: of the actions of Next only RunToEndStep increments rte_calls.
RunToEndIteration ==
    /\ panic = ""
    /\ rte = "running"
    /\ RunToEndCondition
    /\ TickAllowed
    /\ rte_calls' = rte_calls + 1

FairSpec == Spec /\ WF_rte_calls(RunToEndIteration) /\ WF_vars(RunToEndReturn)

\* OpenSpec: games of up to three snakes on the board with one obstacle cell,
\* built and run by run_to_end as the callers do, in which the food draw
\* never falls below food_add_probability, followed for MaxOpenTicks ticks.
OpenInit == NewGame(OpenDraws)

OpenRunToEndStep ==
    /\ UNCHANGED learn_vars
    /\ panic = ""
    /\ rte = "running"
    /\ RunToEndCondition
    /\ step < MaxOpenTicks
    /\ \E bot \in BotAnswers(snakes) : StepWith(bot, FALSE)
    /\ rte_calls' = rte_calls + 1
    /\ UNCHANGED <<rte, rte_result>>

OpenNext ==
    \/ \E id \in 0 .. MaxOpenSnakeId : AddSnake(id)
    \/ Initialize
    \/ RunToEndCall
    \/ OpenRunToEndStep
    \/ RunToEndReturn

OpenSpec == OpenInit /\ [][OpenNext]_vars

\* LoopSpec: games of up to two snakes on the board with one obstacle cell,
\* with the random food regeneration, built and run by run_to_end as the
\* callers do and followed for MaxLoopTicks ticks.
LoopInit == NewGame(OpenDraws)

LoopRunToEndStep ==
    /\ UNCHANGED learn_vars
    /\ panic = ""
    /\ rte = "running"
    /\ RunToEndCondition
    /\ step < MaxLoopTicks
    /\ \E bot \in BotAnswers(snakes) : StepWith(bot, TRUE)
    /\ rte_calls' = rte_calls + 1
    /\ UNCHANGED <<rte, rte_result>>

LoopNext ==
    \/ \E id \in SnakeIds : AddSnake(id)
    \/ \E c \in BOOLEAN : ContinueSimulationIfKnownWinner(c)
    \/ Initialize
    \/ RunToEndCall
    \/ LoopRunToEndStep
    \/ RunToEndReturn

LoopSpec == LoopInit /\ [][LoopNext]_vars

\* BuildSpec: the construction of a game, with NbBuildObstacles obstacle
\* blocks of every size and location Game::new can draw: new(), add_snake
\* and initialize, as the builder chain of the callers runs them, and the
\* first MaxBuildTicks ticks of run_to_end.
BuildInit == NewGameWith(NbBuildObstacles, ObstacleDraws)

BuildRunToEndStep ==
    /\ UNCHANGED learn_vars
    /\ panic = ""
    /\ rte = "running"
    /\ RunToEndCondition
    /\ step < MaxBuildTicks
    /\ \E bot \in BotAnswers(snakes) : StepWith(bot, TRUE)
    /\ rte_calls' = rte_calls + 1
    /\ UNCHANGED <<rte, rte_result>>

BuildNext ==
    \/ \E id \in SnakeIds : AddSnake(id)
    \/ Initialize
    \/ RunToEndCall
    \/ BuildRunToEndStep
    \/ RunToEndReturn

BuildSpec == BuildInit /\ [][BuildNext]_vars

\* SightSpec: the first MaxSightTicks ticks of the games of up to two snakes
\* on the board with one obstacle cell, with the random food regeneration,
\* built and run by run_to_end as the callers do.
SightInit == NewGame(OpenDraws)

SightRunToEndStep ==
    /\ UNCHANGED learn_vars
    /\ panic = ""
    /\ rte = "running"
    /\ RunToEndCondition
    /\ step < MaxSightTicks
    /\ \E bot \in BotAnswers(snakes) : StepWith(bot, TRUE)
    /\ rte_calls' = rte_calls + 1
    /\ UNCHANGED <<rte, rte_result>>

SightNext ==
    \/ \E id \in SnakeIds : AddSnake(id)
    \/ Initialize
    \/ RunToEndCall
    \/ SightRunToEndStep
    \/ RunToEndReturn

SightSpec == SightInit /\ [][SightNext]_vars

\* ------------------------------------------------------------ learn_weights
\* The results of snake_simulation.step(); the best genome of a generation
\* is represented by the number of the generation.
Intermediate(g) == [kind |-> "Intermediate", best |-> g]
Final(g) == [kind |-> "Final", best |-> g]
Err == [kind |-> "Err", best |-> 0]

engine_vars == <<game_vars, panic, rte_vars>>

\* learn_weights is called and installs the Ctrl+C handler (ctrlc feature).
LearnWeightsCall ==
    /\ lw_pc = "idle"
    /\ handler_enabled' = TRUE
    /\ lw_pc' = "while"
    /\ UNCHANGED <<engine_vars, ctrlc_interrupted, learning_stopped, best_weights,
                   lw_result, generation, lw_return, handler_pc, signals, stopped_at>>

\* while !learning_stopped.load()
LoopTest ==
    /\ lw_pc = "while"
    /\ lw_pc' = IF learning_stopped THEN "disable" ELSE "step"
    /\ UNCHANGED <<engine_vars, handler_enabled, ctrlc_interrupted, learning_stopped,
                   best_weights, lw_result, generation, lw_return, handler_pc,
                   signals, stopped_at>>

\* snake_simulation.step() returns Ok(SimResult::Intermediate(step)).
StepIntermediate ==
    /\ lw_pc = "step"
    /\ generation < MaxGenerations
    /\ generation' = generation + 1
    /\ lw_result' = Some(Intermediate(generation + 1))
    /\ lw_pc' = "read_interrupted"
    /\ UNCHANGED <<engine_vars, handler_enabled, ctrlc_interrupted, learning_stopped,
                   best_weights, lw_return, handler_pc, signals, stopped_at>>

\* snake_simulation.step() returns Ok(SimResult::Final(..)): the best
\* solution is kept and the loop is left.
StepFinal ==
    /\ lw_pc = "step"
    /\ generation' = generation + 1
    /\ lw_result' = Some(Final(generation + 1))
    /\ best_weights' = Some(generation + 1)
    /\ lw_pc' = "disable"
    /\ UNCHANGED <<engine_vars, handler_enabled, ctrlc_interrupted, learning_stopped,
                   lw_return, handler_pc, signals, stopped_at>>

\* snake_simulation.step() returns Err(error): the loop is left.
StepErr ==
    /\ lw_pc = "step"
    /\ lw_result' = Some(Err)
    /\ lw_pc' = "disable"
    /\ UNCHANGED <<engine_vars, handler_enabled, ctrlc_interrupted, learning_stopped,
                   best_weights, generation, lw_return, handler_pc, signals,
                   stopped_at>>

\* if !ctrlc_interrupted.load(): the report of the generation is skipped
\* while the handler is asking the user.
ReadInterrupted ==
    /\ lw_pc = "read_interrupted"
    /\ lw_pc' = IF ctrlc_interrupted THEN "while" ELSE "read_stopped"
    /\ UNCHANGED <<engine_vars, handler_enabled, ctrlc_interrupted, learning_stopped,
                   best_weights, lw_result, generation, lw_return, handler_pc,
                   signals, stopped_at>>

\* if learning_stopped.load() { best_weights = Some(best genome) }
ReadStopped ==
    /\ lw_pc = "read_stopped"
    /\ best_weights' = IF learning_stopped THEN Some(lw_result[1].best) ELSE best_weights
    /\ lw_pc' = "while"
    /\ UNCHANGED <<engine_vars, handler_enabled, ctrlc_interrupted, learning_stopped,
                   lw_result, generation, lw_return, handler_pc, signals, stopped_at>>

\* After the loop: the handler is disabled and best_weights is returned.
LearnWeightsReturn ==
    /\ lw_pc = "disable"
    /\ handler_enabled' = FALSE
    /\ lw_return' = best_weights
    /\ lw_pc' = "returned"
    /\ UNCHANGED <<engine_vars, ctrlc_interrupted, learning_stopped, best_weights,
                   lw_result, generation, handler_pc, signals, stopped_at>>

\* The handler thread receives a Ctrl+C and loads handler_enabled.
CtrlC ==
    /\ handler_pc = "idle"
    /\ lw_pc \notin {"idle", "exited"}
    /\ signals < MaxSignals
    /\ signals' = signals + 1
    /\ handler_pc' = IF handler_enabled THEN "store_interrupted" ELSE "idle"
    /\ UNCHANGED <<engine_vars, handler_enabled, ctrlc_interrupted, learning_stopped,
                   best_weights, lw_pc, lw_result, generation, lw_return, stopped_at>>

\* ctrlc_interrupted.store(true), then the handler asks the user.
StoreInterrupted ==
    /\ handler_pc = "store_interrupted"
    /\ ctrlc_interrupted' = TRUE
    /\ handler_pc' = "prompt"
    /\ UNCHANGED <<engine_vars, handler_enabled, learning_stopped, best_weights,
                   lw_pc, lw_result, generation, lw_return, signals, stopped_at>>

\* The user answers "oops, nothing".
ChooseNothing ==
    /\ handler_pc = "prompt"
    /\ handler_pc' = "clear"
    /\ UNCHANGED <<engine_vars, handler_enabled, ctrlc_interrupted, learning_stopped,
                   best_weights, lw_pc, lw_result, generation, lw_return, signals,
                   stopped_at>>

\* The user answers "stop the learning": learning_stopped.store(true).
ChooseStop ==
    /\ handler_pc = "prompt"
    /\ learning_stopped' = TRUE
    /\ stopped_at' = IF stopped_at = None THEN Some(generation) ELSE stopped_at
    /\ handler_pc' = "clear"
    /\ UNCHANGED <<engine_vars, handler_enabled, ctrlc_interrupted, best_weights,
                   lw_pc, lw_result, generation, lw_return, signals>>

\* The user answers "quit": process::exit(0).
ChooseQuit ==
    /\ handler_pc = "prompt"
    /\ handler_pc' = "exited"
    /\ lw_pc' = "exited"
    /\ UNCHANGED <<engine_vars, handler_enabled, ctrlc_interrupted, learning_stopped,
                   best_weights, lw_result, generation, lw_return, signals,
                   stopped_at>>

\* ctrlc_interrupted.store(false) ends the handler.
ClearInterrupted ==
    /\ handler_pc = "clear"
    /\ ctrlc_interrupted' = FALSE
    /\ handler_pc' = "idle"
    /\ UNCHANGED <<engine_vars, handler_enabled, learning_stopped, best_weights,
                   lw_pc, lw_result, generation, lw_return, signals, stopped_at>>

\* LearnSpec: one call of learn_weights interleaved with the Ctrl+C handler
\* thread; the games played inside the simulation step are not followed.
LearnInit == NewGame(ExploredDraws)

LearnNext ==
    \/ LearnWeightsCall
    \/ LoopTest
    \/ StepIntermediate
    \/ StepFinal
    \/ StepErr
    \/ ReadInterrupted
    \/ ReadStopped
    \/ LearnWeightsReturn
    \/ CtrlC
    \/ StoreInterrupted
    \/ ChooseNothing
    \/ ChooseStop
    \/ ChooseQuit
    \/ ClearInterrupted

LearnSpec == LearnInit /\ [][LearnNext]_vars

\* ----------------------------------------------------------------- claims
\* A tick was played to its end in this step of the behaviour.
TickDone == panic' = "" /\ step' = step + 1

\* The cell the head of snake s moves to with action a, None when outside.
Destination(s, a) ==
    LET nc == next_coord_towards(from_pos(Head(s.positions)),
                                 next_orientation(s.current_orientation, a))
    IN  IF nc = None THEN None ELSE Some(to_pos(nc[1]))

\* The live snake at index i moves its head, in the tick just played, into
\* position p, which was Empty or Food when the tick started.
MovesIntoFree(i, p) ==
    /\ snakes[i].alive
    /\ snakes[i].positions # <<>>
    /\ snakes[i].id \in DOMAIN last_bot'
    /\ Destination(snakes[i], last_bot'[snakes[i].id]) = Some(p)
    /\ is_pos_free_or_food(cells, p)

NeverObstacle(p) ==
    from_pos(p).x = BOARD_WIDTH - 1 \/ from_pos(p).y = BOARD_HEIGHT - 1

Permuted(ss, perm) == [k \in 1 .. Len(ss) |-> ss[perm[k]]]

\* Every snake of the game has been placed on the board.
AllPlaced == initialized /\ \A i \in 1 .. Len(snakes) : snakes[i].positions # <<>>

\* C2: the ids alive after a tick do not depend on the order of the snake
\* list: the tick on any permutation of the list, with the same answer for
\* each snake, leaves the same ids alive.
C2_OrderIndependent ==
    (panic = "" /\ AllPlaced) =>
        \A bot \in BotAnswers(snakes) :
            \A perm \in Permutations(1 .. Len(snakes)) :
                AliveIds(Tick(cells, Permuted(snakes, perm), bot).snakes)
                    = AliveIds(Tick(cells, snakes, bot).snakes)

\* C3: once results are Some, no later step of the program changes them.
C3_ResultsLatched == [][results # None => results' = results]_vars

\* Results were set in an earlier tick than the last one played, and a snake
\* died after they were set.
C3_Witness ==
    /\ results # None
    /\ step > results[1].steps
    /\ Len(snakes) = 2
    /\ results[1].winner # Some(Draw)
    /\ AliveCount(snakes) = 0

\* C4: in a game of more than one snake, the tick that sets results sets
\* Winner(id) exactly when id is the only snake alive after it and Draw exactly
\* when none is, and results are unset while two or more snakes are alive.
C4_WinnerIsSurvivor ==
    [][/\ (results = None /\ results' # None /\ Len(snakes) > 1) =>
            /\ \A id \in IdsOf(snakes) :
                  (results'[1].winner = Some(Winner(id))) <=> (AliveIds(snakes') = {id})
            /\ (results'[1].winner = Some(Draw)) <=> (AliveIds(snakes') = {})
       /\ (results' # None /\ Len(snakes') > 1) => AliveCount(snakes') <= 1]_vars

\* The second snake of the list won a game of two.
C4_Witness ==
    /\ Len(snakes) = 2
    /\ results # None
    /\ results[1].winner = Some(Winner(snakes[2].id))
    /\ ~snakes[1].alive

\* C5: in a game of one snake, results are unset while the snake is alive,
\* and the N-th call of step(), in which it dies, sets winner None, steps N.
C5_SoloResults ==
    [][(Len(snakes) = 1 /\ TickDone /\ snakes[1].alive) =>
        IF snakes'[1].alive
        THEN results' = None
        ELSE /\ results = None
             /\ results' = Some(GameResults(None, rte_calls'))
             /\ rte_calls' = step']_vars

\* A solo snake died in the third call of step() or later.
C5_Witness ==
    /\ Len(snakes) = 1
    /\ ~snakes[1].alive
    /\ results # None
    /\ results[1].steps >= 3

\* C6: with lazy stop enabled, run_to_end on a freshly initialized game calls
\* step() exactly results.steps times, and results.steps is the number of the
\* tick in which the alive count fell to at most one.
C6_LazyRunToEnd ==
    (rte = "returned" /\ lazy_simulation) =>
        /\ rte_result # None
        /\ rte_calls = rte_result[1].steps
        /\ first_drop # None
        /\ first_drop[1].tick = rte_result[1].steps

\* run_to_end returned from a lazy game of two snakes after two ticks or more,
\* with a winner that is still alive.
C6_Witness ==
    /\ rte = "returned"
    /\ lazy_simulation
    /\ Len(snakes) = 2
    /\ rte_calls >= 2
    /\ step = rte_calls
    /\ AliveCount(snakes) = 1

\* What the results must be for the ids left alive by the deciding tick.
WinnerFor(nb_snakes, alive) ==
    IF nb_snakes = 1 THEN None
    ELSE IF alive = {} THEN Some(Draw)
    ELSE Some(Winner(CHOOSE id \in alive : TRUE))

C8_RunToEndReturns ==
    (rte = "running" /\ panic = "" /\ AllPlaced /\ Len(snakes) >= 1)
        ~> (rte = "returned" /\ results # None
            /\ (~lazy_simulation => AliveCount(snakes) = 0))

\* run_to_end returned after ten ticks or more.
C8_Witness == rte = "returned" /\ rte_calls >= 10 /\ Len(snakes) >= 1

\* C9: no cell of the board is a head, body or tail cell of a dead snake.
C9_DeadSnakesCleared ==
    \A p \in Positions :
        cells[p].id # NoId => cells[p].id \in AliveIds(snakes)

\* A snake of two cells or more is dead while another one lives on.
C9_Witness ==
    \E i, j \in 1 .. Len(snakes) :
        /\ ~snakes[i].alive
        /\ Len(snakes[i].positions) >= 2
        /\ snakes[j].alive
        /\ Len(snakes[j].positions) >= 2

\* The answers of the last tick, Front for a snake that was not asked.
LastAnswers(ss) ==
    [id \in IdsOf(ss) |-> IF id \in DOMAIN last_bot' THEN last_bot'[id] ELSE "Front"]

\* The snakes of the list that are alive.
LiveOnly(ss) == SelectSeq(ss, LAMBDA sn : sn.alive)

\* C10: a dead snake stays dead and unchanged, its bot is not asked, the
\* board after a tick is the one the live snakes alone produce, and no snake
\* is just_died between two ticks.
C10_DeadIsTerminal ==
    [][/\ \A i \in 1 .. Len(snakes) :
            ~snakes[i].alive =>
                /\ i <= Len(snakes') /\ snakes'[i] = snakes[i]
                /\ TickDone => snakes[i].id \notin DOMAIN last_bot'
       /\ (TickDone /\ AllPlaced) =>
            Tick(cells, snakes, LastAnswers(snakes)).cells
                = Tick(cells, LiveOnly(snakes), LastAnswers(snakes)).cells
       /\ \A i \in 1 .. Len(snakes') : ~snakes'[i].just_died]_vars

\* A tick was played by one snake while the other was already dead.
C10_Witness ==
    /\ Len(snakes) = 2
    /\ first_drop # None
    /\ step > first_drop[1].tick
    /\ DOMAIN last_bot # {}
    /\ \E i \in 1 .. 2 : ~snakes[i].alive /\ snakes[i].id \notin DOMAIN last_bot

\* C11: at the end of every tick no position occurs in the bodies of two
\* live snakes, and none occurs twice in the body of one live snake.
C11_NoSharedPosition ==
    \A i, j \in 1 .. Len(snakes) :
        (snakes[i].alive /\ snakes[j].alive) =>
            \A k \in 1 .. Len(snakes[i].positions) :
                \A l \in 1 .. Len(snakes[j].positions) :
                    (snakes[i].positions[k] = snakes[j].positions[l])
                        => (i = j /\ k = l)

\* C12: at the end of every tick the grid agrees with the body of every live
\* snake i: SnakeHead(i) on the front position and, for a body of more than
\* one position, SnakeTail(i) on the back one and SnakeBody(i) in between.
C12_GridAgreesWithBody ==
    \A i \in 1 .. Len(snakes) :
        (snakes[i].alive /\ snakes[i].positions # <<>>) =>
            LET ps == snakes[i].positions
                n == Len(ps)
            IN  /\ cells[ps[1]] = SnakeHead(snakes[i].id)
                /\ n > 1 =>
                      /\ cells[ps[n]] = SnakeTail(snakes[i].id)
                      /\ \A k \in 2 .. (n - 1) : cells[ps[k]] = SnakeBody(snakes[i].id)

\* C13: when the destination of a live snake is inside the grid and is not
\* Empty or Food, the snake is marked just_died, the only grid write of the
\* move turns its current head cell into SnakeBody, and the destination holds
\* its original value at the end of the tick. Stated for the first live snake
\* of the list, which moves on the board the tick starts with.
C13_DestinationKept ==
    (panic = "" /\ AllPlaced /\ AliveCount(snakes) > 0) =>
        LET s == snakes[AliveIdx(snakes)[1]]
        IN  \A a \in Actions :
                LET d == Destination(s, a)
                    r == execute_action(cells, s, a)
                IN  (d # None /\ ~is_pos_free_or_food(cells, d[1])) =>
                        /\ r.snake.just_died
                        /\ r.cells = set_tile_at_pos(cells, Head(s.positions),
                                                     SnakeBody(s.id))
                        /\ \A bot \in BotAnswers(snakes) :
                              bot[s.id] = a =>
                                  Tick(cells, snakes, bot).cells[d[1]] = cells[d[1]]

\* C14: a call of add_snake with an id in use panics and leaves the snake
\* list unchanged, a step that adds a snake adds one whose id was not in use,
\* and the ids of the snakes are pairwise distinct.
C14_IdsDistinct ==
    [][/\ panic' = "The ID is already used!" => snakes' = snakes
       /\ snakes' # snakes /\ Len(snakes') > Len(snakes) =>
             /\ Len(snakes') = Len(snakes) + 1
             /\ snakes'[Len(snakes')].id \notin IdsOf(snakes)
       /\ \A i, j \in 1 .. Len(snakes') :
             snakes'[i].id = snakes'[j].id => i = j]_vars

\* add_snake was called with an id in use on a game of two snakes.
C14_Witness == panic = "The ID is already used!" /\ Len(snakes) = 2

\* C15: once initialize() has run no snake is added, and every snake of an
\* initialized game has a non-empty body.
C15_SnakesFixed ==
    [][initialized =>
          /\ Len(snakes') = Len(snakes)
          /\ \A i \in 1 .. Len(snakes') : snakes'[i].positions # <<>>]_vars

\* C16: when initialize() returns every snake has a body of one position and
\* faces North, the heads are pairwise distinct, each head cell was Empty or
\* Food before the call and is SnakeHead(id) after it, and every other cell,
\* the Obstacle cells among them, is unchanged.
C16_InitialPlacement ==
    [][(~initialized /\ initialized') =>
          /\ Len(snakes') = Len(snakes)
          /\ \A i \in 1 .. Len(snakes') :
                /\ Len(snakes'[i].positions) = 1
                /\ snakes'[i].current_orientation = "North"
                /\ is_pos_free_or_food(cells, snakes'[i].positions[1])
                /\ cells'[snakes'[i].positions[1]] = SnakeHead(snakes'[i].id)
                /\ \A j \in 1 .. Len(snakes') :
                      snakes'[i].positions[1] = snakes'[j].positions[1] => i = j
          /\ \A p \in Positions :
                (\A i \in 1 .. Len(snakes') : snakes'[i].positions[1] # p)
                    => cells'[p] = cells[p]
          /\ \A p \in Positions : cells[p] = Obstacle => cells'[p] = Obstacle]_vars

\* initialize() has placed two snakes on a board that has obstacles.
C16_Witness ==
    /\ initialized
    /\ step = 0
    /\ Len(snakes) = 2
    /\ \A i \in 1 .. 2 : Len(snakes[i].positions) = 1
    /\ \E p \in Positions : cells[p] = Obstacle

\* Board b2 differs from board b1 in at most one cell, which was Empty in b1
\* and is Food in b2.
FoodEffect(b1, b2) ==
    LET changed == {p \in Positions : b2[p] # b1[p]}
    IN  /\ Cardinality(changed) <= 1
        /\ \A p \in changed : b1[p] = Empty /\ b2[p] = Food

\* The food draws of update_food: no draw, or any cell of the board.
AllFoodDraws == {None} \cup {Some(p) : p \in Positions}

\* C17: a call of update_food changes at most one cell and only turns an
\* Empty (or Food) cell into Food: the call made by every tick, on the board
\* the moves and removals of the tick left, and a call with any draw on any
\* board the game reaches.
C17_FoodOnlyOnFree ==
    [][/\ (TickDone /\ AllPlaced) =>
             \A b \in {Tick(cells, snakes, LastAnswers(snakes)).cells} :
                 FoodEffect(b, cells')
       /\ \A draw \in AllFoodDraws : FoodEffect(cells, update_food(cells, draw))]_vars

\* Food lies on a board that has an obstacle and a live snake of two cells.
C17_Witness ==
    /\ step >= 1
    /\ FoodCount(cells) >= 1
    /\ \E p \in Positions : cells[p] = Obstacle
    /\ \E i \in 1 .. Len(snakes) : snakes[i].alive /\ Len(snakes[i].positions) >= 2

\* The live snake at index i moves its head, in the tick just played, onto
\* position p.
MovesOnto(i, p) ==
    /\ snakes[i].alive
    /\ snakes[i].positions # <<>>
    /\ snakes[i].id \in DOMAIN last_bot'
    /\ Destination(snakes[i], last_bot'[snakes[i].id]) = Some(p)

\* C18: a cell that is Food when a tick starts is Food when it ends unless a
\* snake moved its head onto it during the tick.
C18_FoodStaysUntilEaten ==
    [][(TickDone /\ AllPlaced) =>
          \A p \in Positions :
              (cells[p] = Food /\ cells'[p] # Food)
                  => \E i \in 1 .. Len(snakes) : MovesOnto(i, p)]_vars

\* C19: in a tick the bot of every snake alive when the tick starts is called
\* exactly once and the bot of a dead snake is not called; the answers are
\* all given on the board the tick starts with, the snakes the tick leaves
\* being those of the moves made with these answers; and each snake executes
\* the answer of its own bot.
C19_BotsAskedOnce ==
    [][(TickDone /\ AllPlaced) =>
          \A calls \in {BotCalls(snakes, LastAnswers(snakes))} :
              /\ \A id \in AliveIds(snakes) :
                    Cardinality({k \in 1 .. Len(calls) : calls[k] = id}) = 1
              /\ \A k \in 1 .. Len(calls) : calls[k] \in AliveIds(snakes)
              /\ DOMAIN last_bot' = AliveIds(snakes)
              /\ snakes' = Tick(cells, snakes, LastAnswers(snakes)).snakes
              /\ \A i \in 1 .. Len(snakes) :
                    snakes[i].alive =>
                        \A d \in {Destination(snakes[i], last_bot'[snakes[i].id])} :
                            IF d = None
                            THEN /\ ~snakes'[i].alive
                                 /\ snakes'[i].positions = snakes[i].positions
                            ELSE /\ Head(snakes'[i].positions) = d[1]
                                 /\ snakes'[i].current_orientation =
                                        next_orientation(snakes[i].current_orientation,
                                                         last_bot'[snakes[i].id])]_vars

\* A tick was played in which the first snake of the list was dead and the
\* second one, of two cells or more, turned left.
C19_Witness ==
    /\ Len(snakes) = 2
    /\ ~snakes[1].alive
    /\ snakes[2].alive
    /\ Len(snakes[2].positions) >= 2
    /\ DOMAIN last_bot = {snakes[2].id}
    /\ last_bot[snakes[2].id] = "Left"

\* The coordinate one step from coordinate from towards orientation o.
OneStep(from, o) ==
    [x |-> from.x + (IF o = "East" THEN 1 ELSE IF o = "West" THEN 0 - 1 ELSE 0),
     y |-> from.y + (IF o = "South" THEN 1 ELSE IF o = "North" THEN 0 - 1 ELSE 0)]

\* The step from coordinate from towards o ends inside the grid on a cell of
\* board b that is Empty or Food.
SafeStep(b, from, o) ==
    LET c == OneStep(from, o)
    IN  /\ c.x \in 0 .. (BOARD_WIDTH - 1)
        /\ c.y \in 0 .. (BOARD_HEIGHT - 1)
        /\ b[c.x + c.y * BOARD_WIDTH] \in {Empty, Food}

\* C20: for every in-bounds from and every orientation, get_non_suicide_moves
\* returns, in the order Left, Front, Right, exactly the actions whose
\* destination is inside the grid and holds Empty or Food.
C20_NonSuicideMoves ==
    \A p \in Positions : \A o \in Orientations :
        get_non_suicide_moves(cells, from_pos(p), o)
            = SelectSeq(<<"Left", "Front", "Right">>,
                        LAMBDA a : SafeStep(cells, from_pos(p), next_orientation(o, a)))

\* From some cell and orientation one action leads onto Food and is returned
\* and another leads onto a cell of a snake and is not.
C20_Witness ==
    \E p \in Positions : \E o \in Orientations :
        LET r == get_non_suicide_moves(cells, from_pos(p), o)
            dest(a) == OneStep(from_pos(p), next_orientation(o, a))
        IN  /\ \E k \in 1 .. Len(r) :
                  /\ ~is_out_of_bounds(dest(r[k]))
                  /\ cells[to_pos(dest(r[k]))] = Food
            /\ \E a \in Actions :
                  /\ \A k \in 1 .. Len(r) : r[k] # a
                  /\ ~is_out_of_bounds(dest(a))
                  /\ cells[to_pos(dest(a))].kind \in {"SnakeHead", "SnakeBody", "SnakeTail"}

\* The positions and coordinates the tile writes are tried with: the grid and
\* a margin of one grid around it.
ProbePositions == (0 - NB_CELLS) .. (2 * NB_CELLS - 1)

ProbeCoords ==
    [x : (0 - BOARD_WIDTH) .. (2 * BOARD_WIDTH - 1),
     y : (0 - BOARD_HEIGHT) .. (2 * BOARD_HEIGHT - 1)]

\* C21: a tile write outside the grid panics and changes no cell, for
\* set_tile_at_pos with a position outside [0, BOARD_WIDTH * BOARD_HEIGHT) and
\* for set_tile_at_coord with a coordinate that is out of bounds.
C21_OutsideWritePanics ==
    \A cell \in {Empty, Food, Obstacle} :
        /\ \A p \in ProbePositions \ Positions :
              /\ set_tile_at_pos_panics(p)
              /\ set_tile_at_pos(cells, p, cell) = cells
        /\ \A c \in ProbeCoords :
              is_out_of_bounds(c) =>
                  /\ set_tile_at_coord_panics(c)
                  /\ set_tile_at_coord(cells, c, cell) = cells

\* The action applied n times to orientation o.
RECURSIVE Turned(_, _, _)
Turned(o, a, n) == IF n = 0 THEN o ELSE Turned(next_orientation(o, a), a, n - 1)

\* The orientations of the snakes of the game.
SnakeOrientations == {snakes[i].current_orientation : i \in 1 .. Len(snakes)}

\* C22: for every orientation, those of the snakes among them, Left then
\* Right, Right then Left, and Front give the orientation back, and so do
\* four Left or four Right.
C22_OrientationGroup ==
    \A o \in Orientations \cup SnakeOrientations :
        /\ next_orientation(next_orientation(o, "Left"), "Right") = o
        /\ next_orientation(next_orientation(o, "Right"), "Left") = o
        /\ next_orientation(o, "Front") = o
        /\ Turned(o, "Left", 4) = o
        /\ Turned(o, "Right", 4) = o
        /\ \A n \in 1 .. 3 : Turned(o, "Left", n) # o /\ Turned(o, "Right", n) # o

\* A live snake, placed facing North, faces South after turning left in the
\* last tick.
C22_Witness ==
    \E i \in 1 .. Len(snakes) :
        /\ snakes[i].alive
        /\ snakes[i].current_orientation = "South"
        /\ snakes[i].id \in DOMAIN last_bot
        /\ last_bot[snakes[i].id] = "Left"

\* The coordinates inside the grid.
InBoundsCoords == [x : 0 .. (BOARD_WIDTH - 1), y : 0 .. (BOARD_HEIGHT - 1)]

\* C23: from_pos(to_pos(c)) = c for every in-bounds coordinate c;
\* to_pos(from_pos(p)) = p and from_pos(p) is in bounds for every position p
\* of the cells array; distinct in-bounds coordinates have distinct positions.
C23_PositionBijection ==
    /\ \A c \in InBoundsCoords : from_pos(to_pos(c)) = c
    /\ \A p \in DOMAIN cells :
          /\ to_pos(from_pos(p)) = p
          /\ ~is_out_of_bounds(from_pos(p))
    /\ \A c1, c2 \in InBoundsCoords : to_pos(c1) = to_pos(c2) => c1 = c2

\* The head of a live snake of two cells is on a position whose column and
\* row differ, and its tail on the last position of the grid.
C23_Witness ==
    \E i \in 1 .. Len(snakes) :
        /\ snakes[i].alive
        /\ Len(snakes[i].positions) = 2
        /\ from_pos(snakes[i].positions[1]).x # from_pos(snakes[i].positions[1]).y
        /\ snakes[i].positions[2] = NB_CELLS - 1

\* The actions that take snake s, on board b, onto a cell inside the grid
\* that is Empty or Food.
SafeActions(b, s) ==
    {a \in Actions :
        SafeStep(b, from_pos(Head(s.positions)), next_orientation(s.current_orientation, a))}

\* C24: for every live snake on the board it sees when it decides,
\* get_non_suicide_random_action returns Front when no action is
\* non-suicidal, and otherwise, whatever index is drawn, an action of
\* get_non_suicide_moves, whose destination is inside the grid and free.
C24_RandomActionIsSafe ==
    \A i \in 1 .. Len(snakes) :
        (snakes[i].alive /\ snakes[i].positions # <<>>) =>
            \A safe \in {SafeActions(cells, snakes[i])} :
                IF safe = {}
                THEN \A idx \in 0 .. 2 :
                        get_non_suicide_random_action(cells, snakes[i], idx) = "Front"
                ELSE \A idx \in 0 .. (Cardinality(safe) - 1) :
                        \A a \in {get_non_suicide_random_action(cells, snakes[i], idx)} :
                            /\ a \in safe
                            /\ \E k \in 1 .. Cardinality(safe) :
                                  get_non_suicide_moves(cells, get_head_coord(snakes[i]),
                                      snakes[i].current_orientation)[k] = a

\* One live snake has no non-suicidal action and another has exactly one,
\* which is not Front.
C24_Witness ==
    \E i, j \in 1 .. Len(snakes) :
        /\ snakes[i].alive /\ snakes[i].positions # <<>>
        /\ snakes[j].alive /\ snakes[j].positions # <<>>
        /\ SafeActions(cells, snakes[i]) = {}
        /\ Cardinality(SafeActions(cells, snakes[j])) = 1
        /\ "Front" \notin SafeActions(cells, snakes[j])

\* The live snake s, with a body, has its destination for action a inside
\* the grid.
MovesInBounds(s, a) ==
    /\ s.alive
    /\ s.positions # <<>>
    /\ ~is_out_of_bounds(OneStep(from_pos(Head(s.positions)),
                                 next_orientation(s.current_orientation, a)))

\* C25: at every step boundary the growth counter of every snake lies in
\* 1 .. GROWTH_RATE; a tick decrements the counter of each snake that makes
\* an in-bounds move, resetting it to GROWTH_RATE when it reaches zero, and
\* leaves the other counters unchanged; the assertion growth_state > 0 of
\* execute_action never fails.
C25_GrowthCounter ==
    [][/\ \A i \in 1 .. Len(snakes') : snakes'[i].growth_state \in 1 .. GROWTH_RATE
       /\ panic' # "assertion failed: self.growth_state > 0"
       /\ (TickDone /\ AllPlaced) =>
             \A i \in 1 .. Len(snakes) :
                 snakes'[i].growth_state =
                     IF MovesInBounds(snakes[i], LastAnswers(snakes)[snakes[i].id])
                     THEN IF snakes[i].growth_state = 1
                          THEN GROWTH_RATE
                          ELSE snakes[i].growth_state - 1
                     ELSE snakes[i].growth_state]_vars

\* A live snake has made four moves: its counter was reset once and
\* decremented again.
C25_Witness ==
    /\ step = 4
    /\ \E i \in 1 .. Len(snakes) :
          snakes[i].alive /\ snakes[i].growth_state = GROWTH_RATE - 1

\* C26: for a snake that stays alive, the k-th tick is a growth tick exactly
\* when k is a multiple of GROWTH_RATE; its body never gets shorter in a
\* tick it survives and gets one cell longer in a growth tick, so after k
\* ticks it has at least 1 + k \div GROWTH_RATE cells.
C26_GrowthEveryThirdTick ==
    [][(TickDone /\ AllPlaced) =>
        \A i \in 1 .. Len(snakes) :
            (snakes[i].alive /\ snakes'[i].alive) =>
                /\ (snakes[i].growth_state - 1 = 0) <=> (step' % GROWTH_RATE = 0)
                /\ Len(snakes'[i].positions) >= Len(snakes[i].positions)
                /\ (step' % GROWTH_RATE = 0) =>
                      Len(snakes'[i].positions) = Len(snakes[i].positions) + 1
                /\ Len(snakes'[i].positions) >= 1 + (step' \div GROWTH_RATE)]_vars

\* A snake has survived two growth ticks without eating: three cells after
\* six ticks.
C26_Witness ==
    /\ step = 2 * GROWTH_RATE
    /\ \E i \in 1 .. Len(snakes) :
          snakes[i].alive /\ Len(snakes[i].positions) = 3

\* The first snake a tick moves: the first live snake of the list.
FirstMover == snakes[Head(AliveIdx(snakes))]

\* C27: after a move that the snake survives, its body is one cell longer if
\* the destination was Food or the tick is a growth tick, and as long as
\* before otherwise; the front of the body is the destination, the
\* orientation is next_orientation(old orientation, action), and when the
\* length is unchanged the old tail cell is Empty. Stated for the first move
\* of a tick, which is made on the board the tick starts with.
C27_SurvivedMove ==
    (panic = "" /\ AllPlaced /\ AliveCount(snakes) > 0) =>
        \A a \in Actions :
            \A r \in {execute_action(cells, FirstMover, a)} :
                (r.panic = "" /\ ~r.snake.just_died) =>
                    LET s == FirstMover
                        o == next_orientation(s.current_orientation, a)
                        dest == to_pos(OneStep(from_pos(Head(s.positions)), o))
                        longer == cells[dest] = Food \/ (step + 1) % GROWTH_RATE = 0
                        old_tail == s.positions[Len(s.positions)]
                    IN  /\ Len(r.snake.positions) =
                              Len(s.positions) + (IF longer THEN 1 ELSE 0)
                        /\ Head(r.snake.positions) = dest
                        /\ r.snake.current_orientation = o
                        /\ ~longer => r.cells[old_tail] = Empty

\* C28: from initialize() on the body of every snake is non-empty, and the
\* program never stops on "0-length Snake in execute_action()." nor, once
\* the game is initialized, on "The game hasn't been initialized.".
C28_BodiesNonEmpty ==
    initialized =>
        /\ \A i \in 1 .. Len(snakes) : snakes[i].positions # <<>>
        /\ panic # "0-length Snake in execute_action()."
        /\ panic # "The game hasn't been initialized."

\* C29: when the destination of a live snake is outside the grid,
\* execute_action returns without panic with the snake marked just_died and
\* otherwise unchanged (body, orientation, growth counter), and with
\* SnakeBody(id) on its head cell and every other cell unchanged. Stated for
\* the first move of a tick, which is made on the board the tick starts with.
C29_OutOfBoundsMove ==
    (panic = "" /\ AllPlaced /\ AliveCount(snakes) > 0) =>
        \A a \in Actions :
            LET s == FirstMover
                o == next_orientation(s.current_orientation, a)
                c == OneStep(from_pos(Head(s.positions)), o)
                outside == c.x < 0 \/ c.x >= BOARD_WIDTH \/ c.y < 0 \/ c.y >= BOARD_HEIGHT
            IN  outside =>
                    \A r \in {execute_action(cells, s, a)} :
                        /\ r.panic = ""
                        /\ r.snake.just_died
                        /\ r.snake.positions = s.positions
                        /\ r.snake.current_orientation = s.current_orientation
                        /\ r.snake.growth_state = s.growth_state
                        /\ r.snake.id = s.id /\ r.snake.alive
                        /\ r.cells[Head(s.positions)] = [kind |-> "SnakeBody", id |-> s.id]
                        /\ \A p \in Positions \ {Head(s.positions)} : r.cells[p] = cells[p]

\* A snake left the grid in the first tick: it is dead, its body is the cell
\* it was placed on, and its orientation and growth counter are those of a
\* snake that has not moved.
C29_Witness ==
    /\ step = 1
    /\ \E i \in 1 .. Len(snakes) :
          /\ ~snakes[i].alive
          /\ snakes[i].id \in DOMAIN last_bot
          /\ Len(snakes[i].positions) = 1
          /\ snakes[i].current_orientation = "North"
          /\ snakes[i].growth_state = GROWTH_RATE
          /\ is_out_of_bounds(OneStep(from_pos(Head(snakes[i].positions)),
                                     next_orientation("North", last_bot[snakes[i].id])))

C31_FreeCellsAfterNew ==
    step = 0 =>
        nb_free_cells = Cardinality({p \in DOMAIN cells : cells[p] # Obstacle})

\* The candidate cells given to compute_stats_from: None, the cells of the
\* grid and the coordinates one step outside it.
Candidates ==
    {None} \cup {Some(c) : c \in [x : (0 - 1) .. BOARD_WIDTH, y : (0 - 1) .. BOARD_HEIGHT]}

InGrid(c) == c.x >= 0 /\ c.x < BOARD_WIDTH /\ c.y >= 0 /\ c.y < BOARD_HEIGHT

CoordOf(p) == [x |-> p % BOARD_WIDTH, y |-> p \div BOARD_WIDTH]

PosOf(c) == c.y * BOARD_WIDTH + c.x

FreeCell(b, p) == b[p] = Empty \/ b[p] = Food

\* The pairs of cells that are 4-neighbours on the grid.
AdjacentPairs ==
    {pq \in Positions \X Positions :
        \/ /\ CoordOf(pq[1]).y = CoordOf(pq[2]).y
           /\ CoordOf(pq[1]).x - CoordOf(pq[2]).x \in {0 - 1, 1}
        \/ /\ CoordOf(pq[1]).x = CoordOf(pq[2]).x
           /\ CoordOf(pq[1]).y - CoordOf(pq[2]).y \in {0 - 1, 1}}

Adjacent(p, q) == <<p, q>> \in AdjacentPairs

\* The Empty or Food cells within k 4-neighbour steps over Empty or Food
\* cells of the set S.
RECURSIVE Within(_, _, _)
Within(b, S, k) ==
    IF k = 0 THEN S
    ELSE Within(b, S \cup {q \in Positions : FreeCell(b, q) /\ \E p \in S : Adjacent(p, q)},
                k - 1)

\* The candidate is a cell of the grid that is Empty or Food.
FreeCandidate(b, coord) ==
    coord # None /\ InGrid(coord[1]) /\ FreeCell(b, PosOf(coord[1]))

\* The cells the search from the candidate may count.
Reached(b, coord) ==
    IF FreeCandidate(b, coord) THEN Within(b, {PosOf(coord[1])}, MAX_DEPTH) ELSE {}

\* The candidate is a cell of the grid whose four neighbours are Obstacle
\* or outside the grid.
Pocket(b, coord) ==
    /\ coord # None /\ InGrid(coord[1])
    /\ \A q \in Positions : Adjacent(PosOf(coord[1]), q) => b[q] = Obstacle

\* The search finds area 1 and neither an enemy head nor an enemy tail.
AloneInPocket(st) ==
    /\ st.accessible_area = 1
    /\ st.sum_dist_enemy_heads = 0
    /\ st.sum_dist_enemy_tails = 0
    /\ Len(st.queue) = 1

\* The accessible area and food of the search are those of Reached.
CountsReached(st, b, coord) ==
    /\ \A R \in {Reached(b, coord)} :
          /\ st.accessible_area = Cardinality(R)
          /\ st.num_accessible_food = Cardinality({p \in R : b[p] = Food})
    /\ ~FreeCandidate(b, coord) =>
          st.accessible_area = 0 /\ st.num_accessible_food = 0

\* The id the search is made for in C32, whose counts do not read it.
SomeId == CHOOSE m \in SnakeIds : \A n \in SnakeIds : m <= n

\* C32 (as stated): the accessible area is the number of Empty or Food cells
\* within MAX_DEPTH steps of the candidate and the accessible food the number
\* of Food cells among them, both 0 for a candidate that is None or not
\* Empty or Food; a candidate whose four neighbours are Obstacle or outside
\* the grid gives area 1 with no food and no enemy.
C32_PocketWithoutFood ==
    \A coord \in Candidates :
        \A st \in {Search(StartSearch(coord, cells), SomeId, cells)} :
            /\ CountsReached(st, cells, coord)
            /\ (FreeCandidate(cells, coord) /\ Pocket(cells, coord)) =>
                  AloneInPocket(st) /\ st.num_accessible_food = 0

\* C32 (amended): as above, but a candidate whose four neighbours are
\* Obstacle or outside the grid gives area 1, no enemy, and as accessible
\* food 1 if the candidate itself is Food (at distance 0) and 0 if it is
\* Empty.
C32_AccessibleArea ==
    \A coord \in Candidates :
        \A st \in {Search(StartSearch(coord, cells), SomeId, cells)} :
            /\ CountsReached(st, cells, coord)
            /\ (FreeCandidate(cells, coord) /\ Pocket(cells, coord)) =>
                  /\ AloneInPocket(st)
                  /\ IF cells[PosOf(coord[1])] = Food
                     THEN st.num_accessible_food = 1 /\ st.min_dist_to_food = 0
                     ELSE st.num_accessible_food = 0
                          /\ st.min_dist_to_food = board_diag_size

\* After a tick, a Food cell lies in a pocket, and from another cell the
\* search is cut by the sight distance: an Empty or Food cell is connected
\* to it but out of its reach.
C32_Witness ==
    /\ step = 1
    /\ \E coord \in Candidates :
          Pocket(cells, coord) /\ FreeCandidate(cells, coord)
              /\ cells[PosOf(coord[1])] = Food
    /\ \E coord \in Candidates :
          /\ FreeCandidate(cells, coord)
          /\ Within(cells, {PosOf(coord[1])}, MAX_DEPTH + 1) # Reached(cells, coord)

\* The cells of kind k of the snakes other than id that are 4-neighbours of
\* a cell the search from the candidate expands.
EnemyCells(b, coord, id, k) ==
    {h \in Positions :
        /\ b[h].kind = k /\ b[h].id # id
        /\ \E e \in Reached(b, coord) : Adjacent(e, h)}

\* The distance from the candidate of the nearest expanded cell that is a
\* 4-neighbour of h: the first one the breadth-first order pops.
FirstSeenAt(b, coord, h) ==
    CHOOSE k \in 0 .. MAX_DEPTH :
        /\ \E e \in Within(b, {PosOf(coord[1])}, k) : Adjacent(e, h)
        /\ \A j \in 0 .. (k - 1) :
              ~\E e \in Within(b, {PosOf(coord[1])}, j) : Adjacent(e, h)

RECURSIVE SumFirstSeen(_, _, _)
SumFirstSeen(b, coord, S) ==
    IF S = {} THEN 0
    ELSE LET h == CHOOSE x \in S : TRUE
         IN  FirstSeenAt(b, coord, h) + SumFirstSeen(b, coord, S \ {h})

\* C33: the enemy-head (enemy-tail) distance sum of the search is the sum,
\* over the SnakeHead (SnakeTail) cells of the snakes other than snake_id
\* that are 4-neighbours of an expanded cell, each taken once, of the
\* distance of the first expanded cell next to it; the cells of snake_id add
\* nothing; and only Empty or Food cells are put in the queue, each once.
C33_EnemyDistances ==
    \A id \in SnakeIds : \A coord \in Candidates :
        \A st \in {Search(StartSearch(coord, cells), id, cells)} :
            /\ st.sum_dist_enemy_heads =
                  SumFirstSeen(cells, coord, EnemyCells(cells, coord, id, "SnakeHead"))
            /\ st.sum_dist_enemy_tails =
                  SumFirstSeen(cells, coord, EnemyCells(cells, coord, id, "SnakeTail"))
            /\ \A k \in 1 .. Len(st.queue) : FreeCell(cells, st.queue[k].pos)
            /\ \A k, l \in 1 .. Len(st.queue) :
                  st.queue[k].pos = st.queue[l].pos => k = l

\* Snake 0 looks from a cell from which the head of snake 1 is a neighbour
\* of two expanded cells, the nearer at distance 1, its own head is a
\* neighbour of an expanded cell, and the tail of snake 1 is seen too.
C33_Witness ==
    \E coord \in Candidates :
        /\ FreeCandidate(cells, coord)
        /\ \E h \in EnemyCells(cells, coord, 0, "SnakeHead") :
              /\ FirstSeenAt(cells, coord, h) = 1
              /\ \E e1, e2 \in Reached(cells, coord) :
                    e1 # e2 /\ Adjacent(e1, h) /\ Adjacent(e2, h)
        /\ EnemyCells(cells, coord, 0, "SnakeTail") # {}
        /\ EnemyCells(cells, coord, 1, "SnakeHead") # {}

\* The game is at a step boundary from which step() can ask the bots.
BotsCanBeAsked == panic = "" /\ AllPlaced /\ AliveCount(snakes) >= 1

\* C34: the enemy-head (enemy-tail) value before normalization is the
\* sentinel (nb_alive_snakes - 1) x board diagonal when the search met no
\* enemy head (tail), and the recorded sum of distances whenever it met one,
\* also one next to the candidate cell itself.
C34_SentinelOnlyWhenNoEnemy ==
    BotsCanBeAsked =>
        \A id \in SnakeIds : \A coord \in Candidates :
            \A r \in {compute_stats_from(id, coord, cells, AliveCount(snakes),
                                          nb_free_cells)} :
                /\ r.sum_dist_enemy_heads.num =
                      IF EnemyCells(cells, coord, id, "SnakeHead") = {}
                      THEN (AliveCount(snakes) - 1) * board_diag_size
                      ELSE SumFirstSeen(cells, coord,
                                        EnemyCells(cells, coord, id, "SnakeHead"))
                /\ r.sum_dist_enemy_tails.num =
                      IF EnemyCells(cells, coord, id, "SnakeTail") = {}
                      THEN (AliveCount(snakes) - 1) * board_diag_size
                      ELSE SumFirstSeen(cells, coord,
                                        EnemyCells(cells, coord, id, "SnakeTail"))

\* The value v over the divisor d is defined and lies in [0, 1].
InUnitInterval(q) == q.den > 0 /\ q.num >= 0 /\ q.num <= q.den

\* C35: in every call of compute_stats_from a controller makes during a
\* tick, for one of the three destinations of a live snake, each divisor of
\* the normalization is strictly positive and each value lies between 0 and
\* its divisor, so the five outputs lie in [0, 1].
C35_OutputsNormalized ==
    BotsCanBeAsked =>
        \A i \in 1 .. Len(snakes) : \A a \in Actions :
            snakes[i].alive =>
                \A r \in {compute_stats_from(
                              snakes[i].id,
                              next_coord_towards(
                                  get_head_coord(snakes[i]),
                                  next_orientation(snakes[i].current_orientation, a)),
                              cells, AliveCount(snakes), nb_free_cells)} :
                    /\ InUnitInterval(r.accessible_area)
                    /\ InUnitInterval(r.num_accessible_food)
                    /\ InUnitInterval(r.sum_dist_enemy_heads)
                    /\ InUnitInterval(r.sum_dist_enemy_tails)
                    /\ InUnitInterval(r.min_dist_to_food)

\* C36: the set of Obstacle cells never changes after construction: no
\* step of the program turns an Obstacle cell into another cell, or another
\* cell into Obstacle.
C36_ObstaclesFixed ==
    [][\A p \in Positions : (cells[p] = Obstacle) <=> (cells'[p] = Obstacle)]_vars

\* The board at the moment the snake at index i of the list moves in a tick
\* played with the answers bot: the moves of the live snakes before it in
\* the list have been made.
BoardAtMoveOf(i, bot) ==
    MoveSnakes(1, SelectSeq(AliveIdx(snakes), LAMBDA j : j < i),
               TakeActions(snakes, bot), cells, snakes).cells

\* C37: a live snake whose destination is inside the grid, is Empty or Food
\* at the moment the snake moves and is the destination of no other live
\* snake in the tick is alive at the end of the tick.
C37_NoDeathWithoutCollision ==
    [][(TickDone /\ AllPlaced) =>
        \A bot \in {LastAnswers(snakes)} :
            \A i \in 1 .. Len(snakes) :
                snakes[i].alive =>
                    \A d \in {OneStep(from_pos(Head(snakes[i].positions)),
                                      next_orientation(snakes[i].current_orientation,
                                                       bot[snakes[i].id]))} :
                        (/\ InGrid(d)
                         /\ FreeCell(BoardAtMoveOf(i, bot), PosOf(d))
                         /\ \A j \in 1 .. Len(snakes) :
                               (j # i /\ snakes[j].alive) =>
                                   Destination(snakes[j], bot[snakes[j].id]) # Some(PosOf(d)))
                            => snakes'[i].alive]_vars

\* After the first tick of a game of two snakes, one has moved to another
\* cell and lives, and the other one is dead.
C37_Witness ==
    /\ step = 1
    /\ Len(snakes) = 2
    /\ \E i, j \in 1 .. 2 :
          /\ snakes[i].alive /\ snakes[i].id \in DOMAIN last_bot
          /\ ~snakes[j].alive
          /\ cells[Head(snakes[i].positions)] = SnakeHead(snakes[i].id)

\* C38: at every step boundary, consecutive positions of the body of every
\* live snake are 4-neighbours on the grid: in the same row and adjacent
\* columns, or in the same column and adjacent rows.
C38_BodyIsConnected ==
    \A i \in 1 .. Len(snakes) :
        snakes[i].alive =>
            \A k \in 1 .. (Len(snakes[i].positions) - 1) :
                Adjacent(snakes[i].positions[k], snakes[i].positions[k + 1])

\* A live snake of three cells or more has turned: its body lies on two
\* rows and two columns, and its head is in the last column.
C38_Witness ==
    \E i \in 1 .. Len(snakes) :
        /\ snakes[i].alive
        /\ Len(snakes[i].positions) >= 3
        /\ CoordOf(Head(snakes[i].positions)).x = BOARD_WIDTH - 1
        /\ \E k, l \in 1 .. Len(snakes[i].positions) :
              /\ CoordOf(snakes[i].positions[k]).x # CoordOf(snakes[i].positions[l]).x
              /\ CoordOf(snakes[i].positions[k]).y # CoordOf(snakes[i].positions[l]).y

\* C39: in an initialized game to which no snake was added, no step() sets
\* results, so is_game_over() stays false; run_to_end, once called, finds its
\* loop condition true after every step() and never returns.
C39_EmptyGameNeverEnds ==
    (initialized /\ snakes = <<>>) =>
        /\ results = None
        /\ rte # "returned" /\ rte_result = None
        /\ rte = "running" =>
              (results = None \/ (~lazy_simulation /\ AliveCount(snakes) > 0))

\* run_to_end has called step() twice on a game without snakes and is still
\* in its loop.
C39_Witness ==
    /\ initialized /\ snakes = <<>>
    /\ rte = "running"
    /\ rte_calls = 2 /\ step = 2
    /\ results = None

\* C40: if the user chose "stop the learning" after at least one generation
\* had completed, and the simulation reported no error, learn_weights
\* returns Some(best genome of a completed generation), never None, in every
\* interleaving of the handler thread with the learning loop.
C40_StopReturnsBest ==
    (/\ lw_pc = "returned"
     /\ stopped_at # None /\ stopped_at[1] >= 1
     /\ lw_result # None /\ lw_result[1].kind # "Err")
        => (lw_return # None /\ lw_return[1] \in 1 .. generation)

====
